---- MODULE Spec2Model ----
(***************************************************************************)
(* Model of the Brain log-template miner of src/parser/brain.go:           *)
(* NewLogParser / Preprocess (masking), Vectorize (tokenizing, length      *)
(* grouping, column frequency counting and back-fill) and                  *)
(* LogGroup.GroupByLCP (root selection and template grouping).             *)
(*                                                                         *)
(* Strings are sequences of one-character strings, so that masking,        *)
(* tokenizing and signature building are computed and not assumed.         *)
(* Column indices are 0-based as in the Go code; Go slices are TLA+        *)
(* sequences (1-based), so column c of a line is Tokens[c + 1].            *)
(***************************************************************************)
EXTENDS Integers, Sequences, FiniteSets, TLC

VARIABLES
    pc,             \* position of the driver: which call is running / has returned
    regexStrings,   \* argument of NewLogParser
    lp,             \* the *LogParser returned by NewLogParser (Nil when it failed)
    err,            \* the error returned by NewLogParser (Nil when it succeeded)
    line,           \* argument of the last Preprocess call (parser specification)
    clean,          \* result of the last Preprocess call (parser specification)
    rawLogs,        \* the elements of rawLogs that Vectorize's first loop has consumed
    groups,         \* Vectorize's map[int]*LogGroup
    lcpLen,         \* receiver of the running GroupByLCP call: the group's Length
    lcpW,           \* thresholdPercent of the running GroupByLCP call, a fraction num/den
    lcpIdx,         \* number of logs of lg.Logs the loop of GroupByLCP has processed
    initialGroups,  \* GroupByLCP's map[string]*InitialGroup
    locals          \* the loop body's locals, one record per processed log

vars == <<pc, regexStrings, lp, err, line, clean, rawLogs, groups,
          lcpLen, lcpW, lcpIdx, initialGroups, locals>>

-----------------------------------------------------------------------------
(* Bounds of the model.                                                    *)

\* most lines Vectorize is given
MaxLines == 3
\* most words in one raw line
MaxLen == 3
\* most tokens in all the lines Vectorize is given, taken together
MaxTokens == 6
\* most pattern strings NewLogParser is given
MaxPatterns == 2
\* most characters of a line handed to Preprocess in the parser specification
MaxRawLen == 3

\* a Go pointer or error value: Nil, or Ref(v) holding v
Nil == <<>>

Ref(v) == <<v>>

Deref(p) == p[1]

\* the marker every match is replaced by (brain.go:29) and every non-root
\* column is shown as (brain.go:209)
WILDCARD == <<"<", "*", ">">>

SPACE == " "

\* the characters the class \d matches
Digits == {"0", "1", "2", "3", "4", "5", "6", "7", "8", "9"}

-----------------------------------------------------------------------------
(* Generic helpers.                                                        *)

RECURSIVE Concat(_)
Concat(ss) ==
    IF ss = <<>> THEN <<>> ELSE Head(ss) \o Concat(Tail(ss))

\* all sequences over S of length at most n
SeqsUpTo(S, n) == UNION {[1..k -> S] : k \in 0..n}

\* all orders in which a Go map with key set S may be ranged over
Perms(S) ==
    {p \in [1..Cardinality(S) -> S] : \A i, j \in DOMAIN p : i # j => p[i] # p[j]}

\* the keys of S in increasing order
RECURSIVE Ascending(_)
Ascending(S) ==
    IF S = {} THEN <<>>
    ELSE LET m == CHOOSE x \in S : \A y \in S : x <= y
         IN <<m>> \o Ascending(S \ {m})

-----------------------------------------------------------------------------
(* The regexp package as NewLogParser and Preprocess use it, for the       *)
(* pattern language built from these lexemes: a literal character, the     *)
(* class \d, the repetition + and an opening parenthesis.  A pattern       *)
(* string is a sequence of lexemes; a compiled pattern is a sequence of    *)
(* atoms [cls, plus].                                                      *)

SyntaxError(code, expr) == [Code |-> code, Expr |-> expr]

\* regexp.Compile(s): (prog, nil) or (nil, error)
RECURSIVE ParseRegex(_, _, _)
ParseRegex(s, i, acc) ==
    IF i > Len(s) THEN [prog |-> Ref(acc), err |-> Nil]
    ELSE IF s[i] = "(" THEN
        [prog |-> Nil, err |-> Ref(SyntaxError("missing closing )", s))]
    ELSE IF s[i] = "+" THEN
        IF acc = <<>> THEN
            [prog |-> Nil,
             err |-> Ref(SyntaxError("missing argument to repetition operator", s))]
        ELSE IF acc[Len(acc)].plus THEN
            [prog |-> Nil,
             err |-> Ref(SyntaxError("invalid nested repetition operator", s))]
        ELSE ParseRegex(s, i + 1, [acc EXCEPT ![Len(acc)].plus = TRUE])
    ELSE IF s[i] = "\\d" THEN
        ParseRegex(s, i + 1, Append(acc, [cls |-> Digits, plus |-> FALSE]))
    ELSE
        ParseRegex(s, i + 1, Append(acc, [cls |-> {s[i]}, plus |-> FALSE]))

Compile(s) == ParseRegex(s, 1, <<>>)

\* number of consecutive characters of s from pos on that lie in cls
RECURSIVE Run(_, _, _)
Run(cls, s, pos) ==
    IF pos <= Len(s) /\ s[pos] \in cls THEN 1 + Run(cls, s, pos + 1) ELSE 0

\* leftmost-first match of prog[k..] at pos: the position after the match,
\* or 0 when there is none; + is greedy and backtracks
RECURSIVE MatchAt(_, _, _, _)
RECURSIVE TryPlus(_, _, _, _, _)
MatchAt(prog, k, s, pos) ==
    IF k > Len(prog) THEN pos
    ELSE IF ~prog[k].plus THEN
        IF pos <= Len(s) /\ s[pos] \in prog[k].cls
        THEN MatchAt(prog, k + 1, s, pos + 1)
        ELSE 0
    ELSE TryPlus(prog, k, s, pos, Run(prog[k].cls, s, pos))

TryPlus(prog, k, s, pos, n) ==
    IF n < 1 THEN 0
    ELSE LET e == MatchAt(prog, k + 1, s, pos + n)
         IN IF e # 0 THEN e ELSE TryPlus(prog, k, s, pos, n - 1)

\* re.ReplaceAllString(s, repl): every non-overlapping match, left to right,
\* replaced by repl; an empty match is replaced in front of every character
\* and at the end
RECURSIVE ReplaceFrom(_, _, _, _)
ReplaceFrom(prog, s, pos, repl) ==
    IF pos > Len(s) THEN (IF prog = <<>> THEN repl ELSE <<>>)
    ELSE LET e == MatchAt(prog, 1, s, pos)
         IN IF e = 0 THEN <<s[pos]>> \o ReplaceFrom(prog, s, pos + 1, repl)
            ELSE IF e = pos THEN repl \o <<s[pos]>> \o ReplaceFrom(prog, s, pos + 1, repl)
            ELSE repl \o ReplaceFrom(prog, s, e, repl)

ReplaceAllString(prog, s, repl) == ReplaceFrom(prog, s, 1, repl)

\* strings.Fields(s): the maximal runs of non-space characters of s
RECURSIVE FieldsFrom(_, _, _, _)
FieldsFrom(s, pos, cur, acc) ==
    IF pos > Len(s) THEN (IF cur = <<>> THEN acc ELSE Append(acc, cur))
    ELSE IF s[pos] = SPACE THEN
        FieldsFrom(s, pos + 1, <<>>, IF cur = <<>> THEN acc ELSE Append(acc, cur))
    ELSE FieldsFrom(s, pos + 1, Append(cur, s[pos]), acc)

Fields(s) == FieldsFrom(s, 1, <<>>, <<>>)

-----------------------------------------------------------------------------
(* NewLogParser and Preprocess.                                            *)

\* NewLogParserLoop going on past a pattern that does not compile
RECURSIVE NewLogParserLoopSkip(_, _, _)
NewLogParserLoopSkip(rs, i, patterns) ==
    IF i > Len(rs) THEN [parser |-> Ref([RegexPatterns |-> patterns]), err |-> Nil]
    ELSE LET c == Compile(rs[i])
         IN IF c.err # Nil THEN NewLogParserLoopSkip(rs, i + 1, patterns)
            ELSE NewLogParserLoopSkip(rs, i + 1, Append(patterns, Deref(c.prog)))

\* the loop of NewLogParser from pattern i on, patterns being the compiled
\* patterns appended so far
RECURSIVE NewLogParserLoop(_, _, _)
NewLogParserLoop(rs, i, patterns) ==
    IF i > Len(rs) THEN [parser |-> Ref([RegexPatterns |-> patterns]), err |-> Nil]
    ELSE LET c == Compile(rs[i])
         IN IF c.err # Nil THEN [parser |-> Nil, err |-> c.err]
            ELSE NewLogParserLoop(rs, i + 1, Append(patterns, Deref(c.prog)))

NewLogParser(rs) == NewLogParserLoop(rs, 1, <<>>)

\* the loop of Preprocess from pattern i on
RECURSIVE PreprocessLoop(_, _, _)
PreprocessLoop(patterns, i, logLine) ==
    IF i > Len(patterns) THEN logLine
    ELSE PreprocessLoop(patterns, i + 1, ReplaceAllString(patterns[i], logLine, WILDCARD))

Preprocess(parser, logLine) == PreprocessLoop(Deref(parser).RegexPatterns, 1, logLine)

-----------------------------------------------------------------------------
(* Go maps: functions; a missing key reads as the zero value.              *)

EmptyMap == [k \in {} |-> 0]

MapPut(m, k, v) == [x \in DOMAIN m \cup {k} |-> IF x = k THEN v ELSE m[x]]

MapGet(m, k, zero) == IF k \in DOMAIN m THEN m[k] ELSE zero

-----------------------------------------------------------------------------
(* Vectorize.                                                              *)

\* CountTokens with the count stored as 1 instead of incremented
RECURSIVE CountTokensOverwrite(_, _, _)
CountTokensOverwrite(cc, tokenStrings, i) ==
    IF i >= Len(tokenStrings) THEN cc
    ELSE CountTokensOverwrite(
           MapPut(cc, i, MapPut(MapGet(cc, i, EmptyMap), tokenStrings[i + 1], 1)),
           tokenStrings, i + 1)

\* step 4 of the first loop: ColumnCounts[i][t]++ for the columns from i on
RECURSIVE CountTokens(_, _, _)
CountTokens(cc, tokenStrings, i) ==
    IF i >= Len(tokenStrings) THEN cc
    ELSE LET col == MapGet(cc, i, EmptyMap)
             t   == tokenStrings[i + 1]
         IN CountTokens(MapPut(cc, i, MapPut(col, t, MapGet(col, t, 0) + 1)),
                        tokenStrings, i + 1)

\* one iteration of the first loop of Vectorize: preprocess, tokenize, find or
\* create the group, append the entry and count its tokens
VectorizeBody(gs, id, rawLine, parser) ==
    LET cleanLine    == Preprocess(parser, rawLine)
        tokenStrings == Fields(cleanLine)
        length       == Len(tokenStrings)
        group        == MapGet(gs, length,
                               [Length |-> length, Logs |-> <<>>, ColumnCounts |-> EmptyMap])
        tokens       == [i \in 1..length |-> [Content |-> tokenStrings[i], Frequency |-> 0]]
        entry        == [LineID |-> id, Tokens |-> tokens]
    IN MapPut(gs, length,
              [Length       |-> group.Length,
               Logs         |-> Append(group.Logs, entry),
               ColumnCounts |-> CountTokens(group.ColumnCounts, tokenStrings, 0)])

\* BackfillGroup reading the counts of the next column (index off by one)
BackfillGroupShifted(group) ==
    [Length       |-> group.Length,
     ColumnCounts |-> group.ColumnCounts,
     Logs         |-> [k \in 1..Len(group.Logs) |->
                        [LineID |-> group.Logs[k].LineID,
                         Tokens |-> [i \in 1..Len(group.Logs[k].Tokens) |->
                            [Content   |-> group.Logs[k].Tokens[i].Content,
                             Frequency |-> MapGet(MapGet(group.ColumnCounts, i, EmptyMap),
                                                  group.Logs[k].Tokens[i].Content, 0)]]]]]

\* the second loop of Vectorize for one group: every token's Frequency is
\* read from the group's ColumnCounts
BackfillGroup(group) ==
    [Length       |-> group.Length,
     ColumnCounts |-> group.ColumnCounts,
     Logs         |-> [k \in 1..Len(group.Logs) |->
                        [LineID |-> group.Logs[k].LineID,
                         Tokens |-> [i \in 1..Len(group.Logs[k].Tokens) |->
                            [Content   |-> group.Logs[k].Tokens[i].Content,
                             Frequency |-> MapGet(MapGet(group.ColumnCounts, i - 1, EmptyMap),
                                                  group.Logs[k].Tokens[i].Content, 0)]]]]]

\* the second loop of Vectorize, ranging over the map groups in the given order
RECURSIVE Backfill(_, _, _)
Backfill(gs, order, k) ==
    IF k > Len(order) THEN gs
    ELSE Backfill([gs EXCEPT ![order[k]] = BackfillGroup(gs[order[k]])], order, k + 1)

-----------------------------------------------------------------------------
(* LogGroup.GroupByLCP.                                                    *)

\* step 1 of the loop body: freqToIndices and maxFreqInLog, from column i on
RECURSIVE GroupIndices(_, _, _)
GroupIndices(tokens, i, st) ==
    IF i >= Len(tokens) THEN st
    ELSE LET f == tokens[i + 1].Frequency
         IN GroupIndices(tokens, i + 1,
              [freqToIndices |-> MapPut(st.freqToIndices, f,
                                        Append(MapGet(st.freqToIndices, f, <<>>), i)),
               maxFreqInLog  |-> IF f > st.maxFreqInLog THEN f ELSE st.maxFreqInLog])

\* Threshold rounded up past the product
ThresholdRoundUp(maxFreqInLog, w) == (maxFreqInLog * w.num) \div w.den + 1

\* int(float64(maxFreqInLog) * thresholdPercent), thresholdPercent = num/den
\* with den a power of two, so that the product is exact in float64
Threshold(maxFreqInLog, w) == (maxFreqInLog * w.num) \div w.den

\* Select with >= for >: among equally long candidates the last one ranged
\* over wins
SelectLast(st, f, count) ==
    IF count >= st.maxWordCount THEN [bestFreq |-> f, maxWordCount |-> count]
    ELSE st

\* the if / else-if of both selection loops for one map entry
Select(st, f, count) ==
    IF count > st.maxWordCount THEN [bestFreq |-> f, maxWordCount |-> count]
    ELSE IF count = st.maxWordCount /\ f > st.bestFreq
         THEN [bestFreq |-> f, maxWordCount |-> st.maxWordCount]
         ELSE st

\* FilteredLoop without its filter
RECURSIVE FilteredLoopNoFilter(_, _, _, _, _)
FilteredLoopNoFilter(freqToIndices, order, k, threshold, st) ==
    IF k > Len(order) THEN st
    ELSE FilteredLoopNoFilter(freqToIndices, order, k + 1, threshold,
                              Select(st, order[k], Len(freqToIndices[order[k]])))

\* the threshold-filtered loop, ranging over freqToIndices in the given order
RECURSIVE FilteredLoop(_, _, _, _, _)
FilteredLoop(freqToIndices, order, k, threshold, st) ==
    IF k > Len(order) THEN st
    ELSE LET f == order[k]
         IN FilteredLoop(freqToIndices, order, k + 1, threshold,
              IF f < threshold THEN st ELSE Select(st, f, Len(freqToIndices[f])))

\* the fallback loop, ranging over freqToIndices in the given order
RECURSIVE FallbackLoop(_, _, _, _)
FallbackLoop(freqToIndices, order, k, st) ==
    IF k > Len(order) THEN st
    ELSE FallbackLoop(freqToIndices, order, k + 1,
                      Select(st, order[k], Len(freqToIndices[order[k]])))

\* the set rootIndices built from freqToIndices[bestFreq]
RootIndices(freqToIndices, bestFreq) ==
    LET indices == MapGet(freqToIndices, bestFreq, <<>>)
    IN {indices[j] : j \in 1..Len(indices)}

\* BuildSignature with the root test inverted
RECURSIVE BuildSignatureInverted(_, _, _)
BuildSignatureInverted(tokens, rootIndices, i) ==
    IF i >= Len(tokens) THEN <<>>
    ELSE (IF i > 0 THEN <<SPACE>> ELSE <<>>)
         \o (IF i \notin rootIndices THEN tokens[i + 1].Content ELSE WILDCARD)
         \o BuildSignatureInverted(tokens, rootIndices, i + 1)

\* step 3: the signature, from column i on
RECURSIVE BuildSignature(_, _, _)
BuildSignature(tokens, rootIndices, i) ==
    IF i >= Len(tokens) THEN <<>>
    ELSE (IF i > 0 THEN <<SPACE>> ELSE <<>>)
         \o (IF i \in rootIndices THEN tokens[i + 1].Content ELSE WILDCARD)
         \o BuildSignature(tokens, rootIndices, i + 1)

\* steps 1 to 3 of the loop body for one log: its locals when step 4 is reached
LCPLocals(log, w, order1, order2) ==
    LET g         == GroupIndices(log.Tokens, 0, [freqToIndices |-> EmptyMap, maxFreqInLog |-> 0])
        threshold == Threshold(g.maxFreqInLog, w)
        first     == FilteredLoop(g.freqToIndices, order1, 1, threshold,
                                  [bestFreq |-> -1, maxWordCount |-> -1])
        fallback  == first.bestFreq = -1
        final     == IF fallback THEN FallbackLoop(g.freqToIndices, order2, 1, first)
                     ELSE first
        root      == RootIndices(g.freqToIndices, final.bestFreq)
    IN [LineID        |-> log.LineID,
        freqToIndices |-> g.freqToIndices,
        maxFreqInLog  |-> g.maxFreqInLog,
        threshold     |-> threshold,
        firstBestFreq |-> first.bestFreq,
        fallback      |-> fallback,
        bestFreq      |-> final.bestFreq,
        maxWordCount  |-> final.maxWordCount,
        rootIndices   |-> root,
        signature     |-> BuildSignature(log.Tokens, root, 0)]

\* Insert putting the log in front of the group's Logs
InsertPrepend(ig, signature, log, bestFreq) ==
    LET old == MapGet(ig, signature,
                      [Signature |-> signature, Logs |-> <<>>, RootFrequency |-> bestFreq])
    IN MapPut(ig, signature,
              [Signature     |-> old.Signature,
               Logs          |-> <<log>> \o old.Logs,
               RootFrequency |-> old.RootFrequency])

\* step 4: the log is appended to the InitialGroup of its signature, created
\* with this log's bestFreq when the signature is new
Insert(ig, signature, log, bestFreq) ==
    LET old == MapGet(ig, signature,
                      [Signature |-> signature, Logs |-> <<>>, RootFrequency |-> bestFreq])
    IN MapPut(ig, signature,
              [Signature     |-> old.Signature,
               Logs          |-> Append(old.Logs, log),
               RootFrequency |-> old.RootFrequency])

-----------------------------------------------------------------------------
(* Inputs.                                                                 *)

\* the words raw lines are made of; "7" is what the pattern \d+ masks
RawWords == {<<"a">>, <<"7">>}

RECURSIVE JoinWords(_)
JoinWords(ws) ==
    IF ws = <<>> THEN <<>>
    ELSE IF Len(ws) = 1 THEN ws[1]
    ELSE ws[1] \o <<SPACE>> \o JoinWords(Tail(ws))

\* the raw lines Vectorize is given
RawLines == {JoinWords(ws) : ws \in SeqsUpTo(RawWords, MaxLen)}

\* the thresholdPercent values GroupByLCP is called with
Thresholds == {[num |-> 0, den |-> 1], [num |-> 1, den |-> 2], [num |-> 1, den |-> 1]}

\* the pattern strings NewLogParser is given: \d+, a\d+, a, the empty
\* pattern, and the malformed ( and +
DigitsPattern == <<"\\d", "+">>

PatternStrings ==
    {DigitsPattern, <<"a", "\\d", "+">>, <<"a">>, <<>>, <<"(">>, <<"+">>}

PatternLists == SeqsUpTo(PatternStrings, MaxPatterns)

\* the lines Preprocess is given in the parser specification
RawStrings == SeqsUpTo({"a", "7", SPACE}, MaxRawLen)

-----------------------------------------------------------------------------
(* The pipeline: a parser built as in TestGroupByLCP, one Vectorize call,  *)
(* then one GroupByLCP call on one of the groups.                          *)

Init ==
    /\ regexStrings = <<DigitsPattern>>
    /\ lp = NewLogParser(regexStrings).parser
    /\ err = NewLogParser(regexStrings).err
    /\ pc = "ready"
    /\ line = <<>>
    /\ clean = <<>>
    /\ rawLogs = <<>>
    /\ groups = EmptyMap
    /\ lcpLen = 0
    /\ lcpW = [num |-> 0, den |-> 1]
    /\ lcpIdx = 0
    /\ initialGroups = EmptyMap
    /\ locals = <<>>

\* the number of tokens of all the lines of gs
RECURSIVE TotalTokens(_, _)
TotalTokens(gs, lens) ==
    IF lens = {} THEN 0
    ELSE LET l == CHOOSE x \in lens : TRUE
         IN l * Len(gs[l].Logs) + TotalTokens(gs, lens \ {l})

\* one iteration of Vectorize's first loop, on the next element of rawLogs
VectorizeLine ==
    /\ pc \in {"ready", "vectorize"}
    /\ Len(rawLogs) < MaxLines
    /\ \E rawLine \in RawLines :
         /\ groups' = VectorizeBody(groups, Len(rawLogs), rawLine, lp)
         /\ rawLogs' = Append(rawLogs, rawLine)
    /\ TotalTokens(groups', DOMAIN groups') <= MaxTokens
    /\ pc' = "vectorize"
    /\ UNCHANGED <<regexStrings, lp, err, line, clean, lcpLen, lcpW, lcpIdx,
                   initialGroups, locals>>

\* rawLogs is exhausted: the second loop runs and Vectorize returns groups
VectorizeReturn ==
    /\ pc \in {"ready", "vectorize"}
    /\ \E order \in Perms(DOMAIN groups) : groups' = Backfill(groups, order, 1)
    /\ pc' = "vectorized"
    /\ UNCHANGED <<regexStrings, lp, err, line, clean, rawLogs, lcpLen, lcpW, lcpIdx,
                   initialGroups, locals>>

\* one iteration of GroupByLCP's loop over lg.Logs, on log number idx of
\* group length, with thresholdPercent w and initialGroups ig so far
LCPStep(length, w, idx, ig, ls) ==
    LET log  == groups[length].Logs[idx + 1]
        keys == {log.Tokens[i].Frequency : i \in DOMAIN log.Tokens}
    IN \E order1, order2 \in Perms(keys) :
         LET l == LCPLocals(log, w, order1, order2)
         IN /\ initialGroups' = Insert(ig, l.signature, log, l.bestFreq)
            /\ locals' = Append(ls, l)
            /\ lcpIdx' = idx + 1

\* groups[length].GroupByLCP(w) is called: initialGroups is made and the
\* loop runs its first iteration (a group has at least one log)
GroupByLCPCall ==
    /\ pc = "vectorized"
    /\ \E length \in DOMAIN groups, w \in Thresholds :
         /\ lcpLen' = length
         /\ lcpW' = w
         /\ LCPStep(length, w, 0, EmptyMap, <<>>)
    /\ pc' = "lcp"
    /\ UNCHANGED <<regexStrings, lp, err, line, clean, rawLogs, groups>>

\* a further iteration of GroupByLCP's loop; when none is left, initialGroups
\* is what GroupByLCP returns
GroupByLCPLog ==
    /\ pc = "lcp"
    /\ lcpIdx < Len(groups[lcpLen].Logs)
    /\ LCPStep(lcpLen, lcpW, lcpIdx, initialGroups, locals)
    /\ UNCHANGED <<pc, regexStrings, lp, err, line, clean, rawLogs, groups, lcpLen, lcpW>>

Next ==
    \/ VectorizeLine
    \/ VectorizeReturn
    \/ GroupByLCPCall
    \/ GroupByLCPLog

Spec == Init /\ [][Next]_vars

-----------------------------------------------------------------------------
(* The parser alone: NewLogParser on any list of pattern strings, then     *)
(* Preprocess on any line.                                                 *)

InitParser ==
    /\ pc = "start"
    /\ regexStrings = <<>>
    /\ lp = Nil
    /\ err = Nil
    /\ line = <<>>
    /\ clean = <<>>
    /\ rawLogs = <<>>
    /\ groups = EmptyMap
    /\ lcpLen = 0
    /\ lcpW = [num |-> 0, den |-> 1]
    /\ lcpIdx = 0
    /\ initialGroups = EmptyMap
    /\ locals = <<>>

NewLogParserCall ==
    /\ pc = "start"
    /\ \E rs \in PatternLists :
         /\ regexStrings' = rs
         /\ lp' = NewLogParser(rs).parser
         /\ err' = NewLogParser(rs).err
         /\ pc' = IF NewLogParser(rs).err = Nil THEN "ready" ELSE "failed"
    /\ UNCHANGED <<line, clean, rawLogs, groups, lcpLen, lcpW, lcpIdx, initialGroups, locals>>

PreprocessCall ==
    /\ pc = "ready"
    /\ \E logLine \in RawStrings :
         /\ line' = logLine
         /\ clean' = Preprocess(lp, logLine)
    /\ pc' = "preprocessed"
    /\ UNCHANGED <<regexStrings, lp, err, rawLogs, groups, lcpLen, lcpW, lcpIdx,
                   initialGroups, locals>>

NextParser ==
    \/ NewLogParserCall
    \/ PreprocessCall

SpecParser == InitParser /\ [][NextParser]_vars

-----------------------------------------------------------------------------
(* What the claims are stated over.                                        *)

\* the tokens of every input line (1-based): the line masked, then split
InputTokens == [j \in 1..Len(rawLogs) |-> Fields(Preprocess(lp, rawLogs[j]))]

\* Vectorize has just returned groups
Vectorized == pc = "vectorized"

\* GroupByLCP has returned
Returned == pc = "lcp" /\ lcpIdx = Len(groups[lcpLen].Logs)

\* the group GroupByLCP runs on, and the k-th log it has processed
LCPGroup == groups[lcpLen]

LCPLog(k) == LCPGroup.Logs[k]

\* the LineIDs of a sequence of log entries
LineIDs(logs) == [k \in 1..Len(logs) |-> logs[k].LineID]

StrictlyIncreasing(ids) == \A a, b \in 1..Len(ids) : a < b => ids[a] < ids[b]

\* the sum of the values of a map
RECURSIVE SumOf(_, _)
SumOf(m, keys) ==
    IF keys = {} THEN 0
    ELSE LET k == CHOOSE x \in keys : TRUE
         IN m[k] + SumOf(m, keys \ {k})

-----------------------------------------------------------------------------
\* C3: when Vectorize returns, every token's Frequency equals
\* ColumnCounts[column][Content], which equals the number of input lines of
\* the same token count (and so of the same group, lines of other groups not
\* counted) carrying that content in that column; hence it lies between 1 and
\* the number of lines of the group.
C3_FrequencyIsGroupCount ==
    Vectorized =>
      \A toks \in {InputTokens} :
       \A L \in DOMAIN groups :
        \A k \in 1..Len(groups[L].Logs) :
          LET log == groups[L].Logs[k]
          IN \A i \in 1..Len(log.Tokens) :
               LET t == log.Tokens[i]
                   n == Cardinality({j \in 1..Len(rawLogs) :
                                       /\ Len(toks[j]) = L
                                       /\ toks[j][i] = t.Content})
               IN /\ (i - 1) \in DOMAIN groups[L].ColumnCounts
                  /\ t.Content \in DOMAIN groups[L].ColumnCounts[i - 1]
                  /\ t.Frequency = groups[L].ColumnCounts[i - 1][t.Content]
                  /\ t.Frequency = n
                  /\ 1 <= t.Frequency
                  /\ t.Frequency <= Len(groups[L].Logs)

\* Vectorize has returned two groups that carry the same content in the same
\* column, one of them twice in that column and so with Frequency 2
C3_Witness ==
    /\ Vectorized
    /\ \E L1, L2 \in DOMAIN groups :
         /\ L1 # L2
         /\ \E k1 \in 1..Len(groups[L1].Logs), k2 \in 1..Len(groups[L2].Logs) :
              \E i \in 1..L1 :
                /\ i <= L2
                /\ groups[L1].Logs[k1].Tokens[i].Frequency = 2
                /\ groups[L2].Logs[k2].Tokens[i].Content = groups[L1].Logs[k1].Tokens[i].Content

\* C4: in every group, for every column 0 <= c < Length the counts of
\* ColumnCounts[c] add up to the number of lines of the group, and
\* ColumnCounts has an entry for exactly these columns.
C4_ColumnCountsSumToLines ==
    \A L \in DOMAIN groups :
      /\ DOMAIN groups[L].ColumnCounts = 0..(groups[L].Length - 1)
      /\ \A c \in 0..(groups[L].Length - 1) :
           SumOf(groups[L].ColumnCounts[c], DOMAIN groups[L].ColumnCounts[c])
             = Len(groups[L].Logs)

\* a group of three lines with a column holding two distinct contents
C4_Witness ==
    \E L \in DOMAIN groups :
      /\ Len(groups[L].Logs) = 3
      /\ \E c \in DOMAIN groups[L].ColumnCounts :
           Cardinality(DOMAIN groups[L].ColumnCounts[c]) = 2

\* C6: while Vectorize runs and when it returns, each group's Logs are
\* exactly the input lines of its token count, in input order, with their
\* tokens, so that every input line is in exactly one group; while GroupByLCP
\* runs and when it returns, each template's Logs are entries of the group in
\* increasing LineID order, and every log processed is in exactly one
\* template.
C6_OrderAndMembership ==
    /\ pc # "lcp" =>
        \A toks \in {InputTokens} :
          /\ DOMAIN groups = {Len(toks[j]) : j \in 1..Len(rawLogs)}
          /\ \A L \in DOMAIN groups :
               /\ groups[L].Length = L
               /\ LineIDs(groups[L].Logs)
                    = Ascending({j - 1 : j \in {x \in 1..Len(rawLogs) : Len(toks[x]) = L}})
               /\ \A k \in 1..Len(groups[L].Logs) :
                    LET log == groups[L].Logs[k]
                    IN [i \in 1..Len(log.Tokens) |-> log.Tokens[i].Content]
                         = toks[log.LineID + 1]
    /\ pc = "lcp" =>
         /\ \A sig \in DOMAIN initialGroups :
              /\ Len(initialGroups[sig].Logs) >= 1
              /\ StrictlyIncreasing(LineIDs(initialGroups[sig].Logs))
              /\ \A m \in 1..Len(initialGroups[sig].Logs) :
                   \E k \in 1..lcpIdx : initialGroups[sig].Logs[m] = LCPLog(k)
         /\ \A k \in 1..lcpIdx :
              Cardinality({sig \in DOMAIN initialGroups :
                             \E m \in 1..Len(initialGroups[sig].Logs) :
                               initialGroups[sig].Logs[m].LineID = LCPLog(k).LineID}) = 1

\* GroupByLCP has returned a template holding input lines 0 and 2, line 1
\* being of another length
C6_Witness ==
    /\ Returned
    /\ \E sig \in DOMAIN initialGroups : LineIDs(initialGroups[sig].Logs) = <<0, 2>>
    /\ Len(rawLogs) = 3

\* the reference rule of C1 for one line: the frequency that wins, the root
\* columns and the signature
RefCount(tokens, f) == Cardinality({i \in DOMAIN tokens : tokens[i].Frequency = f})

RefCandidates(tokens, w) ==
    LET freqs     == {tokens[i].Frequency : i \in DOMAIN tokens}
        maxFreq   == CHOOSE m \in freqs : \A f \in freqs : f <= m
        threshold == (w.num * maxFreq) \div w.den
    IN {f \in freqs : f >= threshold}

RefWinner(tokens, w) ==
    CHOOSE f \in RefCandidates(tokens, w) :
      \A g \in RefCandidates(tokens, w) :
        \/ RefCount(tokens, f) > RefCount(tokens, g)
        \/ RefCount(tokens, f) = RefCount(tokens, g) /\ f >= g

RefRoot(tokens, w) == {i - 1 : i \in {x \in DOMAIN tokens : tokens[x].Frequency = RefWinner(tokens, w)}}

\* the tokens joined by single spaces, root columns literal, the others "<*>"
SignatureOf(tokens, root) ==
    Concat([i \in 1..Len(tokens) |->
              (IF i > 1 THEN <<SPACE>> ELSE <<>>)
              \o (IF (i - 1) \in root THEN tokens[i].Content ELSE WILDCARD)])

\* the signatures under which initialGroups holds the log
SignaturesHolding(log) ==
    {sig \in DOMAIN initialGroups :
       \E m \in 1..Len(initialGroups[sig].Logs) : initialGroups[sig].Logs[m] = log}

\* C1: every processed line of at least one token is placed under the
\* signature of the reference rule (threshold = floor(w * maxFreq); among the
\* frequencies >= threshold the one shared by most columns, ties to the
\* larger; root = the columns of that frequency), and under no other.
C1_ReferenceRule ==
    pc = "lcp" =>
      \A k \in 1..lcpIdx :
        LET tokens == LCPLog(k).Tokens
        IN Len(tokens) >= 1 =>
             /\ RefCandidates(tokens, lcpW) # {}
             /\ locals[k].bestFreq = RefWinner(tokens, lcpW)
             /\ locals[k].rootIndices = RefRoot(tokens, lcpW)
             /\ SignaturesHolding(LCPLog(k))
                  = {SignatureOf(tokens, RefRoot(tokens, lcpW))}

\* GroupByLCP has returned, and for one line the threshold kept out a
\* frequency shared by more columns than the winning one
C1_Witness ==
    /\ Returned
    /\ \E k \in 1..lcpIdx :
         \E f \in DOMAIN locals[k].freqToIndices :
           /\ f < locals[k].threshold
           /\ Len(locals[k].freqToIndices[f])
                > Len(locals[k].freqToIndices[locals[k].bestFreq])

\* the locals the loop body had for the member log
LocalsOf(log) == locals[CHOOSE k \in 1..lcpIdx : locals[k].LineID = log.LineID]

\* C2: for every template and every member line, the signature rebuilt from
\* the line with its own root set is the template's Signature, and all
\* members of a template selected the same root set.
C2_RootConsistency ==
    pc = "lcp" =>
      \A sig \in DOMAIN initialGroups :
        LET logs == initialGroups[sig].Logs
        IN /\ \A m \in 1..Len(logs) :
                SignatureOf(logs[m].Tokens, LocalsOf(logs[m]).rootIndices)
                  = initialGroups[sig].Signature
           /\ \A m, n \in 1..Len(logs) :
                LocalsOf(logs[m]).rootIndices = LocalsOf(logs[n]).rootIndices

\* the state a run is in is a function of the input: what the first loop of
\* Vectorize builds from rawLogs
RECURSIVE FirstLoop(_, _)
FirstLoop(logs, n) ==
    IF n = 0 THEN EmptyMap
    ELSE VectorizeBody(FirstLoop(logs, n - 1), n - 1, logs[n], lp)

\* the frequencies of a log's tokens: the keys of its freqToIndices
FrequencyKeys(log) == {log.Tokens[i].Frequency : i \in DOMAIN log.Tokens}

\* C5: whatever order the maps are ranged over, Vectorize and GroupByLCP
\* yield the same groups, the same locals for every line and the same
\* templates.  The groups, the locals of every processed line and the
\* templates are the values computed from the input with every map ranged
\* over in increasing key order; and in the state a map has just been ranged
\* over (groups when Vectorize returns, freqToIndices for the line just
\* processed) every other order gives the same value.
C5_Determinism ==
    /\ pc \in {"ready", "vectorize"} => groups = FirstLoop(rawLogs, Len(rawLogs))
    /\ pc = "vectorized" =>
         \A built \in {FirstLoop(rawLogs, Len(rawLogs))} :
           \A order \in Perms(DOMAIN built) : groups = Backfill(built, order, 1)
    /\ pc = "lcp" =>
            /\ \A k \in 1..lcpIdx :
                 locals[k] = LCPLocals(LCPLog(k), lcpW,
                                       Ascending(FrequencyKeys(LCPLog(k))),
                                       Ascending(FrequencyKeys(LCPLog(k))))
            /\ \A order1, order2 \in Perms(FrequencyKeys(LCPLog(lcpIdx))) :
                 locals[lcpIdx] = LCPLocals(LCPLog(lcpIdx), lcpW, order1, order2)
            /\ \A sig \in DOMAIN initialGroups :
                 LET members == {k \in 1..lcpIdx : locals[k].signature = sig}
                     first   == CHOOSE k \in members : \A j \in members : k <= j
                 IN /\ initialGroups[sig].Signature = sig
                    /\ initialGroups[sig].Logs
                         = [m \in 1..Cardinality(members) |-> LCPLog(Ascending(members)[m])]
                    /\ initialGroups[sig].RootFrequency = locals[first].bestFreq
            /\ DOMAIN initialGroups = {locals[k].signature : k \in 1..lcpIdx}

\* GroupByLCP has returned on an input of several groups, and one line had
\* two frequencies shared by equally many columns, so that the order of the
\* selection loop had a tie to settle
C5_Witness ==
    /\ Returned
    /\ Cardinality(DOMAIN groups) >= 2
    /\ \E k \in 1..lcpIdx :
         \E f, g \in DOMAIN locals[k].freqToIndices :
           /\ f # g
           /\ f >= locals[k].threshold
           /\ g >= locals[k].threshold
           /\ Len(locals[k].freqToIndices[f]) = Len(locals[k].freqToIndices[g])
           /\ Len(locals[k].freqToIndices[f]) = locals[k].maxWordCount

\* every token of every line of the group has Frequency 1
AllFrequencyOne(group) ==
    \A k \in 1..Len(group.Logs) :
      \A i \in 1..Len(group.Logs[k].Tokens) : group.Logs[k].Tokens[i].Frequency = 1

\* C7 as claimed: in a group of any token count whose tokens all have
\* Frequency 1, GroupByLCP yields one template per line, each of one member,
\* through the fallback loop, with a root set that is never empty.
C7_AsClaimed ==
    (Returned /\ AllFrequencyOne(LCPGroup)) =>
      /\ Cardinality(DOMAIN initialGroups) = Len(LCPGroup.Logs)
      /\ \A sig \in DOMAIN initialGroups : Len(initialGroups[sig].Logs) = 1
      /\ \A k \in 1..lcpIdx : locals[k].fallback /\ locals[k].rootIndices # {}

\* C7 amended: in a group of at least one column whose tokens all have
\* Frequency 1, GroupByLCP yields one template per line, each of one member,
\* the root set being all the columns, selected by the threshold-filtered
\* loop and not by the fallback loop; in the group of zero-token lines the
\* fallback loop is entered, the root set is empty and all the lines are
\* under the one template of the empty signature.
C7_Boundary ==
    (Returned /\ AllFrequencyOne(LCPGroup)) =>
      /\ lcpLen >= 1 =>
           /\ Cardinality(DOMAIN initialGroups) = Len(LCPGroup.Logs)
           /\ \A sig \in DOMAIN initialGroups : Len(initialGroups[sig].Logs) = 1
           /\ \A k \in 1..lcpIdx :
                /\ ~locals[k].fallback
                /\ locals[k].rootIndices = 0..(lcpLen - 1)
                /\ locals[k].bestFreq = 1
      /\ lcpLen = 0 =>
           /\ DOMAIN initialGroups = {<<>>}
           /\ Len(initialGroups[<<>>].Logs) = Len(LCPGroup.Logs)
           /\ \A k \in 1..lcpIdx : locals[k].fallback /\ locals[k].rootIndices = {}

\* GroupByLCP has returned, called with w = 1 on a group of two lines of two
\* columns whose tokens all have Frequency 1
C7_Witness ==
    /\ Returned
    /\ AllFrequencyOne(LCPGroup)
    /\ lcpLen = 2
    /\ Len(LCPGroup.Logs) = 2
    /\ lcpW = [num |-> 1, den |-> 1]

\* C9: for every template, every root-column token of every member line has
\* Frequency equal to the template's RootFrequency, and RootFrequency lies
\* between 1 and the number of lines of the group.
C9_RootFrequencyOfEveryMember ==
    pc = "lcp" =>
      \A sig \in DOMAIN initialGroups :
        /\ initialGroups[sig].RootFrequency >= 1
        /\ initialGroups[sig].RootFrequency <= Len(LCPGroup.Logs)
        /\ \A m \in 1..Len(initialGroups[sig].Logs) :
             LET log == initialGroups[sig].Logs[m]
             IN \A c \in LocalsOf(log).rootIndices :
                  log.Tokens[c + 1].Frequency = initialGroups[sig].RootFrequency

\* C10: for a line of at least one token the threshold never exceeds
\* maxFreqInLog, the filtered loop finds a candidate, the fallback loop is
\* not entered and the winning frequency is at least the threshold; the
\* fallback loop is entered exactly for zero-token lines and leaves bestFreq
\* at -1.
C10_FallbackOnlyForEmptyLines ==
    pc = "lcp" =>
      \A k \in 1..lcpIdx :
        LET l == locals[k]
        IN /\ Len(LCPLog(k).Tokens) >= 1 =>
                /\ l.threshold <= l.maxFreqInLog
                /\ l.firstBestFreq # -1
                /\ l.bestFreq >= l.threshold
           /\ l.fallback <=> Len(LCPLog(k).Tokens) = 0
           /\ l.bestFreq = l.firstBestFreq
           /\ l.fallback => l.bestFreq = -1

\* a line of two frequencies processed with w = 1: the threshold is
\* maxFreqInLog itself and keeps the smaller frequency out
C10_Witness ==
    /\ pc = "lcp"
    /\ lcpW = [num |-> 1, den |-> 1]
    /\ \E k \in 1..lcpIdx :
         /\ locals[k].threshold = locals[k].maxFreqInLog
         /\ Cardinality(DOMAIN locals[k].freqToIndices) >= 2

-----------------------------------------------------------------------------
\* the patterns applied one after the other, each on the output of the one
\* before it
RECURSIVE ApplyInOrder(_, _, _)
ApplyInOrder(progs, k, l) ==
    IF k = 0 THEN l
    ELSE ReplaceAllString(progs[k], ApplyInOrder(progs, k - 1, l), WILDCARD)

\* the patterns of regexStrings that do not compile
Offending == {i \in 1..Len(regexStrings) : Compile(regexStrings[i]).err # Nil}

\* C8: NewLogParser returns an error exactly when some pattern does not
\* compile, then with no parser, the error being that of the first such
\* pattern, and no line is preprocessed; otherwise it returns no error and a
\* parser whose RegexPatterns are the compiled patterns in the given order,
\* and Preprocess applies them in that order, each on the output of the
\* previous one.
C8_NewLogParser ==
    pc # "start" =>
      /\ err # Nil <=> Offending # {}
      /\ Offending # {} =>
           /\ lp = Nil
           /\ pc = "failed"
           /\ err = Compile(regexStrings[CHOOSE i \in Offending :
                                           \A j \in Offending : i <= j]).err
           /\ line = <<>>
           /\ clean = <<>>
      /\ Offending = {} =>
           /\ lp # Nil
           /\ Deref(lp).RegexPatterns
                = [i \in 1..Len(regexStrings) |-> Deref(Compile(regexStrings[i]).prog)]
      /\ pc = "preprocessed" =>
           clean = ApplyInOrder(Deref(lp).RegexPatterns, Len(regexStrings), line)

\* Preprocess has run with two patterns whose order matters: applied the
\* other way round they give another line
C8_Witness ==
    /\ pc = "preprocessed"
    /\ Len(regexStrings) = 2
    /\ clean # ReplaceAllString(Deref(lp).RegexPatterns[1],
                                ReplaceAllString(Deref(lp).RegexPatterns[2], line, WILDCARD),
                                WILDCARD)

====
